---- MODULE Spec2Model ----
(***************************************************************************)
(* Model of the directory reader of rust-p9 (src/server/read_dir.rs):      *)
(* read_dir, ReadDir::next, Drop for ReadDir and strip_padding, together   *)
(* with the part of the C library and kernel they call into (fcntl,        *)
(* fdopendir, seekdir, readdir64, closedir, close, errno).                 *)
(***************************************************************************)
EXTENDS Integers, Sequences, FiniteSets, TLC

\* ------------------------------------------------------------------ bounds
\* Size of the process's descriptor table (RLIMIT_NOFILE, scaled down).  The
\* caller's own descriptors fill it up to the last two slots, so that two
\* readers can be open together and a third read_dir finds the table full.
MaxFd == 4
\* Length of the native d_name field (256 in libc::dirent64, scaled down).
NameField == 3
\* Number of entries one getdents64 call can put in a stream's buffer.
BufCap == 2
\* Largest directory enumerated.
MaxEntries == 3
\* Width in bits of libc::off64_t / c_long / u64 (64, scaled down).
OffBits == 4
\* Longest byte string given to strip_padding in StripSpec.
MaxLen == 4

\* ------------------------------------------------------------- vocabulary
NUL == 0
Bytes == {0, 1, 2}
\* A null pointer (DIR* or dirent64*) and the -1 a failed syscall returns.
NULL == -1
Closed == "closed"
OK == "OK"
\* errno as a call finds it: whatever an earlier call left behind.  The code
\* reads errno only after a native call has failed, in read_dir.
Stale == "stale"
\* Open file descriptions the caller holds: one open of the exported
\* directory and one open of a regular file.
DescDir == "dir"
DescFile == "file"
DirDescs == {DescDir}
Fds == 0 .. (MaxFd - 1)
\* The caller's descriptors (the `dir: &mut D` arguments of read_dir):
\* descriptor 0 is the open directory, the others are regular files.
BaseFds == 0 .. (MaxFd - 3)
BaseDesc(fd) == IF fd = 0 THEN DescDir ELSE DescFile

\* ------------------------------------------------------------ pure helpers
\* Option::None of position().
None == -1

\* b.iter().position(|&c| c == 0): index (0-based) of the first nul at or
\* after 1-based place i, or None when there is none.
RECURSIVE position(_, _)
position(s, i) ==
  IF i > Len(s) THEN None
  ELSE IF s[i] = NUL THEN i - 1
  ELSE position(s, i + 1)

\* Outcomes of a call that may panic.
Returned(v) == [panic |-> FALSE, val |-> v]
Panicked == [panic |-> TRUE]
Pending == [pending |-> TRUE]

\* Faulty variant: what the comment promises ("trims any trailing nul bytes").
RECURSIVE trim_trailing(_)
trim_trailing(s) ==
  IF Len(s) > 0 /\ s[Len(s)] = NUL THEN trim_trailing(SubSeq(s, 1, Len(s) - 1))
  ELSE s

strip_trailing(s) ==
  IF position(s, 1) = None THEN Panicked ELSE Returned(trim_trailing(s))

\* Faulty variant: unwrap_or(b.len()) in place of expect(..).
strip_lenient(s) ==
  LET pos == position(s, 1)
  IN  IF pos = None THEN Returned(s) ELSE Returned(SubSeq(s, 1, pos))

\* strip_padding: the bytes before the first nul; panics when there is none.
strip_padding(s) ==
  LET pos == position(s, 1)
  IN  IF pos = None THEN Panicked ELSE Returned(SubSeq(s, 1, pos))

\* -------------------------------------------------- native directory data
\* d_name as the C library lays it out: the name, then nul padding.
Pad(s) == s \o [i \in 1 .. (NameField - Len(s)) |-> NUL]

\* Native entries (libc::dirent64) in the order the stream yields them.
\* d_off values are filesystem cookies, not counters; one is negative as a
\* c_long.  The third name has a stale byte after its terminator.
Listing ==
  << [d_ino |-> 11, d_off |-> 5, d_type |-> 4, d_name |-> Pad(<<1>>)],
     [d_ino |-> 12, d_off |-> -3, d_type |-> 8, d_name |-> Pad(<<1, 2>>)],
     [d_ino |-> 13, d_off |-> 7, d_type |-> 8,
      d_name |-> <<2, NUL>> \o [i \in 1 .. (NameField - 2) |-> 1]],
     [d_ino |-> 14, d_off |-> 2, d_type |-> 8, d_name |-> Pad(<<2>>)],
     [d_ino |-> 15, d_off |-> 6, d_type |-> 8, d_name |-> Pad(<<2, 2>>)] >>

\* An entry whose name fills the whole d_name field, so that the field
\* holds no terminator.
LongName ==
  [d_ino |-> 16, d_off |-> 4, d_type |-> 8,
   d_name |-> [i \in 1 .. NameField |-> 1]]

\* The directories enumerated: the first n entries of the listing, and one
\* with the long name in second place.
Directories ==
  {SubSeq(Listing, 1, n) : n \in 0 .. MaxEntries}
    \cup {<<Listing[1], LongName, Listing[2]>>}

Min(a, c) == IF a < c THEN a ELSE c

\* `d_off as u64`: reinterpretation of the signed offset, OffBits wide.
ToU64(x) == x % (2 ^ OffBits)

\* P9String::new: a wire string holds at most u16::MAX bytes, none nul.
P9MaxLen == 65535
P9String_new(s) ==
  IF Len(s) > P9MaxLen \/ (\E i \in 1 .. Len(s) : s[i] = NUL)
  THEN [err |-> TRUE]
  ELSE [err |-> FALSE, val |-> s]

\* DirEntry { ino, offset: d_off as u64, type_, name }.
DirEntryOf(ent, name) ==
  [ino |-> ent.d_ino, offset |-> ToU64(ent.d_off), type_ |-> ent.d_type,
   name |-> name]

\* ------------------------------------------------------ C library, kernel
FreeFds(t) == {fd \in Fds : t[fd] = Closed}
IsOpen(t, fd) == fd \in Fds /\ t[fd] # Closed

\* Faulty variant: no duplication, the caller's descriptor itself is handed on.
fcntl_nodup(t, fd, e) == [ret |-> fd, fdt |-> t, errno |-> e]

\* fcntl(fd, F_DUPFD_CLOEXEC, 0): the lowest free descriptor, made to name
\* the same open file description as fd; -1 and errno on failure.
fcntl_dupfd(t, fd, e) ==
  IF ~IsOpen(t, fd) THEN [ret |-> NULL, fdt |-> t, errno |-> "EBADF"]
  ELSE IF FreeFds(t) = {} THEN [ret |-> NULL, fdt |-> t, errno |-> "EMFILE"]
  ELSE LET n == CHOOSE x \in FreeFds(t) : \A y \in FreeFds(t) : x <= y
       IN  [ret |-> n, fdt |-> [t EXCEPT ![n] = t[fd]], errno |-> e]

\* fdopendir(fd): a stream on fd (named here by its descriptor), or NULL
\* and errno.
fdopendir(t, fd, oom, e) ==
  IF ~IsOpen(t, fd) THEN [dir |-> NULL, errno |-> "EBADF"]
  ELSE IF t[fd] \notin DirDescs THEN [dir |-> NULL, errno |-> "ENOTDIR"]
  ELSE IF oom THEN [dir |-> NULL, errno |-> "ENOMEM"]
  ELSE [dir |-> fd, errno |-> e]

\* Faulty variant: the failure path forgets the descriptor.
close_forgotten(t, fd, e) == [fdt |-> t, errno |-> e]

\* close(fd): EBADF for a descriptor that is not open.
close(t, fd, e) ==
  IF ~IsOpen(t, fd) THEN [fdt |-> t, errno |-> "EBADF"]
  ELSE [fdt |-> [t EXCEPT ![fd] = Closed], errno |-> e]

\* Faulty variant: the stream is never closed.
closedir_leak(t, fd, e) == [fdt |-> t, errno |-> e]

\* closedir(dir): frees the stream and closes its descriptor.
closedir(t, fd, e) ==
  IF ~IsOpen(t, fd) THEN [fdt |-> t, errno |-> "EBADF"]
  ELSE [fdt |-> [t EXCEPT ![fd] = Closed], errno |-> e]

\* Faulty variant: the stream always starts at the beginning.
lseek_rewind(d, off) == {0}

\* seekdir(dir, offset) is lseek(fd, offset) on the stream's open file
\* description: the positions the directory may end at.  0 is the start, the
\* d_off of an entry is the place right after it, anything else is left to
\* the filesystem.
lseek(d, off) ==
  IF off = 0 THEN {0}
  ELSE IF \E k \in 1 .. Len(d) : d[k].d_off = off
       THEN {k \in 1 .. Len(d) : d[k].d_off = off}
       ELSE 0 .. Len(d)

\* getdents64 from position pos: at most BufCap entries.
getdents(d, pos) == SubSeq(d, pos + 1, Min(pos + BufCap, Len(d)))

\* readdir64(dir): serve the stream's buffer; refill it from the open file
\* description when it is empty.  A null result is end of stream (errno
\* untouched) or a failed read (errno set).
readdir64(buf, d, pos, eio, e) ==
  IF buf # <<>>
  THEN [null |-> FALSE, ent |-> Head(buf), buf |-> Tail(buf), pos |-> pos,
        errno |-> e, failed |-> FALSE, fetched |-> FALSE]
  ELSE IF eio
  THEN [null |-> TRUE, buf |-> buf, pos |-> pos, errno |-> "EIO",
        failed |-> TRUE, fetched |-> FALSE]
  ELSE LET got == getdents(d, pos)
       IN  IF got = <<>>
           THEN [null |-> TRUE, buf |-> buf, pos |-> pos, errno |-> e,
                 failed |-> FALSE, fetched |-> FALSE]
           ELSE [null |-> FALSE, ent |-> Head(got), buf |-> Tail(got),
                 pos |-> pos + Len(got), errno |-> e, failed |-> FALSE,
                 fetched |-> TRUE]

\* fdt      the process's descriptor table: descriptor -> open file
\*          description, or Closed
\* ofdPos   the directory position of each open file description (the
\*          number of entries before it); descriptors duplicated from one
\*          another share it
\* readers  the ReadDir values, by the descriptor of their stream: status,
\*          the stream's buffer, and the history of the reader (the offset it
\*          was opened at, the entries next() returned, whether another handle
\*          on its open file description moved the position meanwhile)
\* ret      what the last call returned
\* dir      the directory's native entries, in stream order
\* crashed  a panic unwound out of next()
\* b, res   argument and outcome of a direct strip_padding call (StripSpec)
VARIABLES fdt, ofdPos, readers, ret, dir, crashed, b, res

vars == <<fdt, ofdPos, readers, ret, dir, crashed, b, res>>

\* ret.closeArg when the call made no close().
NoClose == -2

NoReader ==
  [status |-> "none", buf |-> <<>>, start |-> 0, out |-> <<>>,
   disturbed |-> FALSE]

Live(fd) == readers[fd].status = "live"

\* The offsets a caller passes to read_dir: 0, or the offset of an entry
\* of an earlier enumeration.
ResumeOffsets(d) == {0} \cup {d[k].d_off : k \in 1 .. Len(d)}

Init ==
  /\ fdt = [fd \in Fds |-> IF fd \in BaseFds THEN BaseDesc(fd) ELSE Closed]
  /\ ofdPos = [d \in DirDescs |-> 0]
  /\ readers = [fd \in Fds |-> NoReader]
  /\ ret = [op |-> "init"]
  /\ dir \in Directories
  /\ crashed = FALSE
  /\ b = <<>>
  /\ res = Pending

\* read_dir(dir, offset), lines 62-76.
read_dir(base, offset, oom) ==
  /\ ~crashed
  /\ LET d == fcntl_dupfd(fdt, base, Stale)
         o == fdopendir(d.fdt, d.ret, oom, d.errno)
         \* which native call failed, and the error it set
         failed == IF d.ret = NULL THEN "fcntl"
                   ELSE IF o.dir = NULL THEN "fdopendir" ELSE "none"
         stepErrno == IF d.ret = NULL THEN d.errno
                      ELSE IF o.dir = NULL THEN o.errno ELSE OK
     IN  IF o.dir = NULL
         THEN LET c == close(d.fdt, d.ret, o.errno)
              IN  /\ fdt' = c.fdt
                  /\ ret' = [op |-> "read_dir", kind |-> "Err",
                             err |-> c.errno, dup |-> d.ret,
                             failed |-> failed, stepErrno |-> stepErrno,
                             closeArg |-> d.ret]
                  /\ UNCHANGED <<ofdPos, readers>>
         ELSE LET desc == d.fdt[o.dir]
              IN  /\ fdt' = d.fdt
                  /\ \E p \in lseek(dir, offset) :
                       ofdPos' = [ofdPos EXCEPT ![desc] = p]
                  /\ readers' =
                       [fd \in Fds |->
                         IF fd = o.dir
                         THEN [status |-> "live", buf |-> <<>>,
                               start |-> offset, out |-> <<>>,
                               disturbed |-> FALSE]
                         ELSE IF Live(fd) /\ fdt[fd] = desc
                         THEN [readers[fd] EXCEPT !.disturbed = TRUE]
                         ELSE readers[fd]]
                  /\ ret' = [op |-> "read_dir", kind |-> "Ok", err |-> OK,
                             dup |-> d.ret, failed |-> failed,
                             stepErrno |-> stepErrno, closeArg |-> NoClose]
  /\ UNCHANGED <<dir, crashed, b, res>>

\* ReadDir::next, lines 34-59.
next(fd, eio) ==
  /\ ~crashed
  /\ Live(fd)
  /\ Len(readers[fd].out) <= MaxEntries
  /\ LET desc == fdt[fd]
         r == readdir64(readers[fd].buf, dir, ofdPos[desc], eio, Stale)
         moved == [x \in Fds |->
                    IF x # fd /\ Live(x) /\ fdt[x] = desc /\ r.fetched
                    THEN [readers[x] EXCEPT !.disturbed = TRUE]
                    ELSE readers[x]]
     IN  /\ ofdPos' = [ofdPos EXCEPT ![desc] = r.pos]
         /\ IF r.null
            THEN /\ ret' = [op |-> "next", fd |-> fd, val |-> "None",
                            native |-> IF r.failed THEN r.errno ELSE OK]
                 /\ readers' = moved
                 /\ UNCHANGED crashed
            ELSE LET stripped == strip_padding(r.ent.d_name)
                 IN  IF stripped.panic
                     THEN /\ crashed' = TRUE
                          /\ ret' = [op |-> "next", fd |-> fd,
                                     val |-> "panic", native |-> OK]
                          /\ readers' = [moved EXCEPT ![fd].buf = r.buf]
                     ELSE LET name == P9String_new(stripped.val)
                          IN  /\ UNCHANGED crashed
                              /\ IF name.err
                                 THEN /\ ret' = [op |-> "next", fd |-> fd,
                                                 val |-> "SomeErr",
                                                 native |-> OK]
                                      /\ readers' =
                                           [moved EXCEPT ![fd].buf = r.buf]
                                 ELSE /\ ret' = [op |-> "next", fd |-> fd,
                                                 val |-> "SomeOk",
                                                 native |-> OK]
                                      /\ readers' =
                                           [moved EXCEPT
                                             ![fd].buf = r.buf,
                                             ![fd].out =
                                               Append(@, DirEntryOf(r.ent,
                                                                    name.val))]
  /\ UNCHANGED <<fdt, dir, b, res>>

\* Drop for ReadDir, lines 23-28: the one closedir of the stream.
drop(fd) ==
  /\ ~crashed
  /\ Live(fd)
  /\ fdt' = closedir(fdt, fd, Stale).fdt
  /\ readers' = [readers EXCEPT ![fd] = NoReader]
  /\ ret' = [op |-> "drop", fd |-> fd]
  /\ UNCHANGED <<ofdPos, dir, crashed, b, res>>

Next ==
  \/ \E base \in BaseFds, offset \in ResumeOffsets(dir), oom \in BOOLEAN :
       read_dir(base, offset, oom)
  \/ \E fd \in Fds, eio \in BOOLEAN : next(fd, eio)
  \/ \E fd \in Fds : drop(fd)

Spec == Init /\ [][Next]_vars

HasNul(s) == \E i \in 1 .. Len(s) : s[i] = NUL

\* ---------------------------------------------------- claims on Spec
OpenFds == {fd \in Fds : fdt[fd] # Closed}
LiveFds == {fd \in Fds : Live(fd)}

\* C1: the native stream a successful read_dir opened stays open for as long
\* as its ReadDir lives and is closed by the drop of that ReadDir, however far
\* the caller iterated: the descriptors open beyond the caller's own are
\* exactly those of the live readers, each naming a directory, and the
\* descriptor of a reader just dropped is closed.
C1_StreamClosedExactlyAtDrop ==
  /\ OpenFds \ BaseFds = LiveFds \ BaseFds
  /\ \A fd \in LiveFds : fdt[fd] \in DirDescs
  /\ ret.op = "drop" => (fdt[ret.fd] = Closed /\ ~Live(ret.fd))

\* Witness of C1: a reader abandoned in the middle of the directory has
\* just been dropped, and only the caller's descriptors are open.
C1_Witness ==
  /\ ret.op = "drop"
  /\ ofdPos[DescDir] > 0
  /\ ofdPos[DescDir] < Len(dir)
  /\ OpenFds = BaseFds

\* C2: when the duplication or the stream open fails, read_dir returns an
\* I/O error, produces no reader, and leaves the descriptor table as it found
\* it: a duplicate that was obtained is closed again.
C2_FailureReleasesDuplicate ==
  [][(ret'.op = "read_dir" /\ ret'.failed # "none") =>
       /\ ret'.kind = "Err"
       /\ ret'.err \notin {OK, Stale}
       /\ fdt' = fdt
       /\ readers' = readers
       /\ ret'.dup \in Fds => fdt'[ret'.dup] = Closed]_vars

\* Witness of C2: fdopendir failed on a duplicate that had been obtained,
\* while another reader is open; the duplicate is closed again.
C2_Witness ==
  /\ ret.op = "read_dir"
  /\ ret.failed = "fdopendir"
  /\ ret.kind = "Err"
  /\ ret.dup \in Fds
  /\ fdt[ret.dup] = Closed
  /\ LiveFds # {}

\* The entry next() is to return for native entry e: its inode, its d_off
\* as an unsigned value, its type and the bytes of d_name before the first
\* nul.
Expected(e) ==
  [ino |-> e.d_ino,
   offset |-> CHOOSE u \in 0 .. (2 ^ OffBits - 1) :
                (u - e.d_off) % (2 ^ OffBits) = 0,
   type_ |-> e.d_type,
   name |-> IF HasNul(e.d_name)
            THEN LET p == CHOOSE i \in 1 .. Len(e.d_name) :
                            /\ e.d_name[i] = NUL
                            /\ \A j \in 1 .. (i - 1) : e.d_name[j] # NUL
                 IN  SubSeq(e.d_name, 1, p - 1)
            ELSE <<-1>>]

\* The native entries after the one whose returned offset is the resume
\* token s (all of them for s = 0).
EntriesAfter(d, s) ==
  IF s = 0 THEN d
  ELSE LET k == CHOOSE i \in 1 .. Len(d) :
                  Expected(d[i]).offset = s % (2 ^ OffBits)
       IN  SubSeq(d, k + 1, Len(d))

\* What next() returned so far on fd is a prefix of what a reader opened at
\* the same offset returns when it runs alone.
ReadsAsAlone(fd) ==
  LET rest == EntriesAfter(dir, readers[fd].start)
      out == readers[fd].out
  IN  /\ Len(out) <= Len(rest)
      /\ \A i \in 1 .. Len(out) : out[i] = Expected(rest[i])

\* C5: next() never aborts: whatever the native entry holds, a
\* terminator-less d_name included, the call returns None, Some(Ok) or
\* Some(Err).
C5_NextNeverAborts ==
  /\ ~crashed
  /\ ret.op = "next" => ret.val \in {"None", "SomeOk", "SomeErr"}

C7_ReadersIndependent == \A fd \in LiveFds : ReadsAsAlone(fd)

\* C8: the caller's descriptors are never touched: each stays open on its
\* own open file description, and neither read_dir's close nor a reader's
\* drop is ever applied to one of them.
C8_CallerDescriptorUntouched ==
  /\ \A fd \in BaseFds : fdt[fd] = BaseDesc(fd)
  /\ ret.op = "read_dir" => ret.closeArg \notin BaseFds
  /\ ret.op = "drop" => ret.fd \notin BaseFds

\* Witness of C8: a reader that had read entries was dropped while another
\* one is still open, and the caller's descriptors are open as before.
C8_Witness ==
  /\ ret.op = "drop"
  /\ ofdPos[DescDir] > 0
  /\ LiveFds # {}
  /\ \A fd \in BaseFds : fdt[fd] = BaseDesc(fd)

\* C9: None marks end of stream and nothing else: when next() returns None
\* the native read did not fail and the stream has no entry left.
C9_NoneOnlyAtEndOfStream ==
  (ret.op = "next" /\ ret.val = "None") =>
    /\ ret.native = OK
    /\ readers[ret.fd].buf = <<>>
    /\ ofdPos[fdt[ret.fd]] = Len(dir)

\* C10: a failed read_dir returns the OS error of the native call that
\* failed, and calls close only on a descriptor the duplication returned.
C10_ErrorOfFailedStep ==
  (ret.op = "read_dir" /\ ret.kind = "Err") =>
    /\ ret.err = ret.stepErrno
    /\ ret.closeArg \in Fds

\* ------------------------------------------------- StripSpec (pure function)
ByteStrings == UNION {[1 .. n -> Bytes] : n \in 0 .. MaxLen}

StripIdle ==
  /\ fdt = [fd \in Fds |-> IF fd \in BaseFds THEN BaseDesc(fd) ELSE Closed]
  /\ ofdPos = [d \in DirDescs |-> 0]
  /\ readers = [fd \in Fds |-> NoReader]
  /\ ret = [op |-> "init"]
  /\ dir = <<>>
  /\ crashed = FALSE

StripInit ==
  /\ StripIdle
  /\ b \in ByteStrings
  /\ res = Pending

StripCall ==
  /\ res = Pending
  /\ res' = strip_padding(b)
  /\ UNCHANGED <<fdt, ofdPos, readers, ret, dir, crashed, b>>

StripNext == StripCall

StripSpec == StripInit /\ [][StripNext]_vars

C4_StripPanicsWithoutNul ==
  (res # Pending /\ ~HasNul(b)) => res = Panicked

\* Witness of C4: the call was made on a non-empty string without a nul and
\* ended in the panic.
C4_Witness ==
  /\ res = Panicked
  /\ b = <<1, 2, 1>>
====
